---- MODULE Spec2Model ----
(***************************************************************************)
(* Model of HistoryOutlineAnalyzer (analyze_history_outline.py): the       *)
(* line-by-line scanner extract_knowledge_points, the aggregator           *)
(* analyze_knowledge_distribution, and the run_analysis pipeline.          *)
(*                                                                         *)
(* A line of text is a sequence of tokens; a token stands for a substring  *)
(* of the line.  TLA+ strings are ASCII, so the tokens are transliterated: *)
(*   "Intro" 导言, "Ch1" 第一章 ... "Ch10" 第十章   (the CHAPTERS labels)  *)
(*   "DI" 第, "YE" 页   (DI digits YE matches 第\d+页, such as 第1页)      *)
(*   "Sec1" 第一节 ... "Sec5" 第五节                                        *)
(*   "EQ"   the divider ===  (two of them on a line match ===.*===)        *)
(*   "KP"   知识点,  "1" "2" "3" decimal digits                            *)
(*   "*"    one star glyph ★                                              *)
(*   "["  "]"   ASCII square brackets,  "LB" 【,  "RB" 】                  *)
(*   "danxuan" 单选, "jianda" 简答, "lunshu" 论述, "shiji" 识记            *)
(*   "SP"   one whitespace character,  "NL" the newline character          *)
(*   "zhenti" 真题·, "moni" 模拟·, "daan" 答案, "jiexi" 解析                *)
(*   "yiyi" 意义, "yingxiang" 影响, "zuoyong" 作用, "zhengce" 政策,        *)
(*   "fangzhen" 方针, "luxian" 路线, "zhanzheng" 战争, "yundong" 运动,     *)
(*   "geming" 革命, "qiyi" 起义, "shibian" 事变                            *)
(*   "Mao" 毛泽东, "Sun" 孙中山, "Deng" 邓小平, "Jiang" 江泽民,            *)
(*   "Hu" 胡锦涛, "Xi" 习近平                                              *)
(*   "x", "lsbj" (历史背景)   ordinary text                                *)
(* Dictionary keys: "zonghe" 综合, "weibiaozhu" 未标注,                    *)
(*   "lishishijian" 历史事件, "renwusixiang" 人物思想,                     *)
(*   "lilunzhengce" 理论政策, "lishiyiyi" 历史意义, "qita" 其他,           *)
(*   "***" ★★★, "**" ★★.  "None" is Python's None.                      *)
(***************************************************************************)
EXTENDS Naturals, Integers, Sequences, FiniteSets, TLC

VARIABLES file, content, lines, knowledge_points, stats,
          pc, result, i, current_chapter, current_knowledge, kps, first_run

vars == <<file, content, lines, knowledge_points, stats,
          pc, result, i, current_chapter, current_knowledge, kps, first_run>>

\* Longest text, in lines, that the file on disk may hold.
MaxLines == 4

CHAPTERS == <<"Intro", "Ch1", "Ch2", "Ch3", "Ch4", "Ch5",
              "Ch6", "Ch7", "Ch8", "Ch9", "Ch10">>

ChapterSet == {CHAPTERS[c] : c \in 1..Len(CHAPTERS)}

CHAPTER_NAMES(ch) == IF ch \in ChapterSet THEN <<"name", ch>> ELSE <<>>

----------------------------------------------------------------------------
(* Text primitives: str.strip, str.split, substring and regex searches.    *)

IsSpace(t) == t \in {"SP", "NL"}

IsDigit(t) == t \in {"1", "2", "3"}

RECURSIVE LStrip(_)
LStrip(s) == IF s # <<>> /\ IsSpace(Head(s)) THEN LStrip(Tail(s)) ELSE s

RECURSIVE RStrip(_)
RStrip(s) ==
  IF s # <<>> /\ IsSpace(s[Len(s)]) THEN RStrip(SubSeq(s, 1, Len(s) - 1)) ELSE s

\* str.strip()
Strip(s) == RStrip(LStrip(s))

\* content.split('\n'): always at least one piece.
RECURSIVE Split(_)
Split(s) ==
  IF \E k \in 1..Len(s) : s[k] = "NL"
    THEN LET k == CHOOSE k \in 1..Len(s) :
                    s[k] = "NL" /\ \A j \in 1..(k - 1) : s[j] # "NL"
         IN <<SubSeq(s, 1, k - 1)>> \o Split(SubSeq(s, k + 1, Len(s)))
    ELSE <<s>>

\* '\n'.join(ls): the text a sequence of lines is stored as.
RECURSIVE Join(_)
Join(ls) ==
  IF Len(ls) = 0 THEN <<>>
  ELSE IF Len(ls) = 1 THEN ls[1]
  ELSE ls[1] \o <<"NL">> \o Join(Tail(ls))

\* `pat in line` for a pattern given as a token sequence.
ContainsAt(line, pat, k) ==
  /\ k + Len(pat) - 1 <= Len(line)
  /\ \A j \in 1..Len(pat) : line[k + j - 1] = pat[j]

Contains(line, pat) == \E k \in 1..Len(line) : ContainsAt(line, pat, k)

\* Length of the run of digits starting at position k.
RECURSIVE DigitRun(_, _)
DigitRun(line, k) ==
  IF k <= Len(line) /\ IsDigit(line[k]) THEN 1 + DigitRun(line, k + 1) ELSE 0

\* r'第\d+页' matches at position k
PageAt(line, k) ==
  /\ k <= Len(line) /\ line[k] = "DI"
  /\ DigitRun(line, k + 1) >= 1
  /\ k + 1 + DigitRun(line, k + 1) <= Len(line)
  /\ line[k + 1 + DigitRun(line, k + 1)] = "YE"

\* re.search(r'第\d+页|===.*===', line)
HasPageMarker(line) ==
  \/ \E k \in 1..Len(line) : PageAt(line, k)
  \/ \E j, k \in 1..Len(line) : j < k /\ line[j] = "EQ" /\ line[k] = "EQ"

\* any(ch in line and re.search(r'第\d+页|===.*===', line) for ch in CHAPTERS)
IsChapterLine(line) ==
  \E c \in 1..Len(CHAPTERS) : Contains(line, <<CHAPTERS[c]>>) /\ HasPageMarker(line)

\* DetectChapter without the page-marker test: any mention of a chapter
\* label changes the current chapter.
DetectChapter_NoPageTest(line, cur) ==
  IF \E c \in 1..Len(CHAPTERS) : Contains(line, <<CHAPTERS[c]>>)
    THEN LET c == CHOOSE c \in 1..Len(CHAPTERS) :
                    /\ Contains(line, <<CHAPTERS[c]>>)
                    /\ \A d \in 1..(c - 1) : ~Contains(line, <<CHAPTERS[d]>>)
         IN CHAPTERS[c]
    ELSE cur

\* The chapter-detection loop: the first label of CHAPTERS, in list order,
\* that the line names together with a page marker replaces cur.
DetectChapter(line, cur) ==
  IF IsChapterLine(line)
    THEN LET c == CHOOSE c \in 1..Len(CHAPTERS) :
                    /\ Contains(line, <<CHAPTERS[c]>>)
                    /\ \A d \in 1..(c - 1) : ~Contains(line, <<CHAPTERS[d]>>)
         IN CHAPTERS[c]
    ELSE cur

\* re.search(r'知识点\d+', line) matches at position k
KnowledgeAt(line, k) == k < Len(line) /\ line[k] = "KP" /\ IsDigit(line[k + 1])

\* "知识点" in line and re.search(r'知识点\d+', line)
IsKnowledgeLine(line) ==
  Contains(line, <<"KP">>) /\ \E k \in 1..Len(line) : KnowledgeAt(line, k)

\* Length of the run of stars starting at position k.
RECURSIVE StarRun(_, _)
StarRun(line, k) ==
  IF k <= Len(line) /\ line[k] = "*" THEN 1 + StarRun(line, k + 1) ELSE 0

\* re.search(r'知识点(\d+)', line).group(1), "0" when there is no match
KnowledgeId(line) ==
  IF \E k \in 1..Len(line) : KnowledgeAt(line, k)
    THEN LET k == CHOOSE k \in 1..Len(line) :
                    KnowledgeAt(line, k) /\ \A j \in 1..(k - 1) : ~KnowledgeAt(line, j)
         IN SubSeq(line, k + 1, k + DigitRun(line, k + 1))
    ELSE <<"0">>

\* re.sub(r'知识点\d+', '', s)
RECURSIVE RemoveKnowledgeLabel(_)
RemoveKnowledgeLabel(s) ==
  IF s = <<>> THEN <<>>
  ELSE IF KnowledgeAt(s, 1)
    THEN RemoveKnowledgeLabel(SubSeq(s, 2 + DigitRun(s, 2), Len(s)))
    ELSE <<Head(s)>> \o RemoveKnowledgeLabel(Tail(s))

\* re.sub(open .*? close, '', s): each opening bracket is removed together
\* with everything up to the nearest closing bracket after it.
RECURSIVE RemoveBracketed(_, _, _)
RemoveBracketed(s, open, close) ==
  IF s = <<>> THEN <<>>
  ELSE IF Head(s) = open /\ \E k \in 2..Len(s) : s[k] = close
    THEN LET k == CHOOSE k \in 2..Len(s) :
                    s[k] = close /\ \A j \in 2..(k - 1) : s[j] # close
         IN RemoveBracketed(SubSeq(s, k + 1, Len(s)), open, close)
    ELSE <<Head(s)>> \o RemoveBracketed(Tail(s), open, close)

\* re.sub(r'★+', '', s)
RemoveStars(s) == SelectSeq(s, LAMBDA t : t # "*")

\* The four-stage title cleaning of the marker line.
KnowledgeTitle(line) ==
  LET t1 == Strip(RemoveKnowledgeLabel(line))
      t2 == Strip(RemoveBracketed(t1, "[", "]"))
      t3 == Strip(RemoveBracketed(t2, "LB", "RB"))
  IN Strip(RemoveStars(t3))

StarToken(n) == IF n >= 3 THEN "***" ELSE IF n = 2 THEN "**" ELSE "*"

\* re.search(r'(★★★|★★|★)', line): the leftmost star starts the match and
\* the alternation takes the longest of the three tokens that fits there.
FindImportance(line) ==
  IF \E k \in 1..Len(line) : line[k] = "*"
    THEN LET k == CHOOSE k \in 1..Len(line) :
                    line[k] = "*" /\ \A j \in 1..(k - 1) : line[j] # "*"
         IN StarToken(StarRun(line, k))
    ELSE "None"

\* The three `if "【..】" in line: exam_requirements.append(..)` tests.
ExamRequirements(line) ==
  (IF Contains(line, <<"LB", "danxuan", "RB">>) THEN <<"danxuan">> ELSE <<>>)
  \o (IF Contains(line, <<"LB", "jianda", "RB">>) THEN <<"jianda">> ELSE <<>>)
  \o (IF Contains(line, <<"LB", "lunshu", "RB">>) THEN <<"lunshu">> ELSE <<>>)

\* line.strip() and not re.search(r'^\s*$', line)
IsContentLine(line) ==
  Strip(line) # <<>> /\ ~(\A k \in 1..Len(line) : IsSpace(line[k]))

----------------------------------------------------------------------------
(* The file on disk: the input of one run.                                 *)

LineSet ==
  { <<"SP">>,
    <<"SP", "Ch2", "x", "SP">>,
    <<"x", "*", "*">>,
    <<"Ch1", "SP", "DI", "1", "YE">>,
    <<"KP", "1", "SP", "[", "shiji", "]", "SP", "lsbj", "*", "*", "*",
      "LB", "danxuan", "RB">>,
    <<"KP", "2", "x", "LB", "jianda", "RB", "LB", "lunshu", "RB">>,
    <<"EQ", "Ch2", "Intro", "EQ", "KP", "3">> }

RECURSIVE LineSeqs(_)
LineSeqs(n) ==
  IF n = 0 THEN {<<>>}
  ELSE LET shorter == LineSeqs(n - 1)
       IN shorter \cup {Append(ls, l) : ls \in {t \in shorter : Len(t) = n - 1},
                                        l \in LineSet}

\* The empty file and every text of one to MaxLines lines.
Texts == {<<>>} \cup {Join(ls) : ls \in LineSeqs(MaxLines) \ {<<>>}}

\* What _extract_pdf_text returns for a PDF: the pages' text, or "" when no
\* library is installed, parsing fails or no page has text.
PdfTexts == {<<>>} \cup {Join(<<l>>) : l \in LineSet}

Files ==
  {[kind |-> k, text |-> <<>>] : k \in {"missing", "unreadable", "undecodable"}}
  \cup {[kind |-> "txt", text |-> t] : t \in Texts}
  \cup {[kind |-> "pdf", text |-> t] : t \in PdfTexts}

----------------------------------------------------------------------------
(* load_file                                                               *)

\* load_file without the `if not self.content` test.
load_file_NoEmptyCheck(f, c, l) ==
  IF f.kind \in {"missing", "unreadable", "undecodable"}
    THEN [ok |-> FALSE, content |-> c, lines |-> l]
  ELSE [ok |-> TRUE, content |-> f.text, lines |-> Split(f.text)]

\* The value load_file returns and the content and lines it leaves behind,
\* for the file f and the fields c (content) and l (lines) before the call.
load_file(f, c, l) ==
  IF f.kind \in {"missing", "unreadable", "undecodable"}
    THEN [ok |-> FALSE, content |-> c, lines |-> l]
  ELSE IF f.text = <<>>
    THEN [ok |-> FALSE, content |-> f.text, lines |-> l]
  ELSE [ok |-> TRUE, content |-> f.text, lines |-> Split(f.text)]

\* The analyzer after __init__, before any call.  first_run is the caller's
\* copy of the output of an earlier run, <<>> when there was none.
Constructed ==
  /\ content = <<>>
  /\ lines = <<>>
  /\ knowledge_points = <<>>
  /\ stats = <<>>
  /\ pc = "start"
  /\ result = "None"
  /\ i = 0
  /\ current_chapter = "None"
  /\ current_knowledge = <<>>
  /\ kps = <<>>
  /\ first_run = <<>>

Init == file \in Files /\ Constructed

\* run_analysis up to the first analysis step.
LoadFile ==
  /\ pc = "start"
  /\ LET r == load_file(file, content, lines)
     IN /\ content' = r.content
        /\ lines' = r.lines
        /\ pc' = IF r.ok THEN "basic_info" ELSE "failed"
        /\ result' = IF r.ok THEN result ELSE "False"
  /\ UNCHANGED <<first_run, file, knowledge_points, stats, i, current_chapter,
                 current_knowledge, kps>>

----------------------------------------------------------------------------
(* analyze_basic_info and analyze_structure                                *)

\* self.stats[key] = value
Put(d, key, value) ==
  [k \in (DOMAIN d) \cup {key} |-> IF k = key THEN value ELSE d[k]]

\* Number of characters a token stands for.
TokLen(t) ==
  IF t \in ChapterSet \ {"Intro"} THEN 3
  ELSE IF t \in {"EQ", "KP", "Sec1", "Sec2", "Sec3", "Sec4", "Sec5",
                 "zhenti", "moni", "Mao", "Sun", "Deng", "Jiang", "Hu", "Xi"} THEN 3
  ELSE IF t \in {"Intro", "danxuan", "jianda", "lunshu", "shiji", "daan", "jiexi",
                 "yiyi", "yingxiang", "zuoyong", "zhengce", "fangzhen", "luxian",
                 "zhanzheng", "yundong", "geming", "qiyi", "shibian"} THEN 2
  ELSE IF t = "lsbj" THEN 4
  ELSE 1

\* len(s)
RECURSIVE CharLen(_)
CharLen(s) == IF s = <<>> THEN 0 ELSE TokLen(Head(s)) + CharLen(Tail(s))

\* int(p) for a run of digits
RECURSIVE DigitsValue(_)
DigitsValue(ds) ==
  IF ds = <<>> THEN 0
  ELSE 10 * DigitsValue(SubSeq(ds, 1, Len(ds) - 1))
       + (CASE ds[Len(ds)] = "1" -> 1 [] ds[Len(ds)] = "2" -> 2 [] OTHER -> 3)

\* r'=== 第 (\d+) 页 ===' matches at position k
DividerAt(s, k) ==
  LET n == DigitRun(s, k + 4)
  IN /\ ContainsAt(s, <<"EQ", "SP", "DI", "SP">>, k)
     /\ n >= 1
     /\ ContainsAt(s, <<"SP", "YE", "SP", "EQ">>, k + 4 + n)

\* re.findall(r'=== 第 (\d+) 页 ===', s) as the set of the numbers found,
\* scanning from position k; a match consumes its tokens.
RECURSIVE PageNumbers(_, _)
PageNumbers(s, k) ==
  IF k > Len(s) THEN {}
  ELSE IF DividerAt(s, k)
    THEN LET n == DigitRun(s, k + 4)
         IN {DigitsValue(SubSeq(s, k + 4, k + 3 + n))} \cup PageNumbers(s, k + 8 + n)
    ELSE PageNumbers(s, k + 1)

\* sorted(list(set))
RECURSIVE Sorted(_)
Sorted(S) ==
  IF S = {} THEN <<>>
  ELSE LET m == CHOOSE m \in S : \A n \in S : m <= n
       IN <<m>> \o Sorted(S \ {m})

analyze_basic_info(c) ==
  LET pages == Sorted(PageNumbers(c, 1))
  IN [total_chars |-> CharLen(c),
      total_chars_no_space |-> CharLen(SelectSeq(c, LAMBDA t : ~IsSpace(t))),
      pages |-> pages,
      page_count |-> Len(pages)]

AnalyzeBasicInfo ==
  /\ pc = "basic_info"
  /\ stats' = Put(stats, "basic_info", analyze_basic_info(content))
  /\ pc' = "structure"
  /\ UNCHANGED <<first_run, file, content, lines, knowledge_points, result, i,
                 current_chapter, current_knowledge, kps>>

\* r'第\d+页(第[一二三四五]节)' matches at position k
SectionAt(s, k) ==
  /\ PageAt(s, k)
  /\ k + 2 + DigitRun(s, k + 1) <= Len(s)
  /\ s[k + 2 + DigitRun(s, k + 1)] \in {"Sec1", "Sec2", "Sec3", "Sec4", "Sec5"}

\* The line of the text s around position k (rfind and find of '\n').
LineAround(s, k) ==
  LET before == {j \in 1..(k - 1) : s[j] = "NL"}
      after == {j \in k..Len(s) : s[j] = "NL"}
      first == IF before = {} THEN 1
               ELSE 1 + (CHOOSE j \in before : \A m \in before : m <= j)
      last == IF after = {} THEN Len(s)
              ELSE (CHOOSE j \in after : \A m \in after : j <= m) - 1
  IN SubSeq(s, first, last)

\* chapter_positions: the occurrences of chapter labels on lines that carry
\* a page marker, as (chapter, offset) pairs.
chapter_positions(s) ==
  {cp \in ChapterSet \X (1..Len(s)) :
     s[cp[2]] = cp[1] /\ HasPageMarker(LineAround(s, cp[2]))}

\* closest_chapter that gives the section the chapter a line-by-line scan has
\* in force on the section's line.
closest_chapter_Sequential(s, p) ==
  LET ls == Split(s)
      k == 1 + Cardinality({j \in 1..(p - 1) : s[j] = "NL"})
      S == {m \in 1..k : IsChapterLine(ls[m])}
  IN IF S = {} THEN "None"
     ELSE DetectChapter(ls[CHOOSE m \in S : \A j \in S : j <= m], "None")

\* closest_chapter that takes the chapter position at the smallest distance
\* on either side of the section.
closest_chapter_EitherSide(s, p) ==
  LET all == chapter_positions(s)
      Dist(q) == IF q < p THEN p - q ELSE q - p
  IN IF all = {} THEN "None"
     ELSE (CHOOSE cp \in all : \A o \in all : Dist(cp[2]) <= Dist(o[2]))[1]

\* closest_chapter for a section at offset p: "None" or the chapter of the
\* preceding position at the smallest distance.
closest_chapter(s, p) ==
  LET before == {cp \in chapter_positions(s) : cp[2] < p}
  IN IF before = {} THEN "None"
     ELSE (CHOOSE cp \in before : \A o \in before : p - cp[2] <= p - o[2])[1]

\* analyze_structure that keeps a chapter_sections entry only for the
\* chapters that were given a section.
analyze_structure_SparseKeys(s) ==
  LET section_matches == {k \in 1..Len(s) : SectionAt(s, k)}
      hit == {ch \in ChapterSet : \E p \in section_matches : closest_chapter(s, p) = ch}
  IN [total_sections |-> Cardinality(section_matches),
      chapter_sections |->
        [ch \in hit |->
           Cardinality({p \in section_matches : closest_chapter(s, p) = ch})]]

analyze_structure(s) ==
  LET section_matches == {k \in 1..Len(s) : SectionAt(s, k)}
  IN [total_sections |-> Cardinality(section_matches),
      chapter_sections |->
        [ch \in ChapterSet |->
           Cardinality({p \in section_matches : closest_chapter(s, p) = ch})]]

AnalyzeStructure ==
  /\ pc = "structure"
  /\ stats' = Put(stats, "structure", analyze_structure(content))
  /\ pc' = "extract_begin"
  /\ UNCHANGED <<first_run, file, content, lines, knowledge_points, result, i,
                 current_chapter, current_knowledge, kps>>

----------------------------------------------------------------------------
(* extract_knowledge_points                                                *)

\* ExtractBegin that starts from the analyzer's stored list instead of an
\* empty one.
ExtractBegin_KeepList ==
  /\ pc = "extract_begin"
  /\ kps' = knowledge_points
  /\ current_chapter' = "None"
  /\ current_knowledge' = <<>>
  /\ i' = 0
  /\ pc' = "extract"
  /\ UNCHANGED <<first_run, file, content, lines, knowledge_points, stats, result>>

\* Entry of extract_knowledge_points: the three locals are initialised.
ExtractBegin ==
  /\ pc = "extract_begin"
  /\ kps' = <<>>
  /\ current_chapter' = "None"
  /\ current_knowledge' = <<>>
  /\ i' = 0
  /\ pc' = "extract"
  /\ UNCHANGED <<first_run, file, content, lines, knowledge_points, stats, result>>

\* The dictionary created for a marker line at index idx.
NewKnowledge(line, chapter, idx) ==
  [id |-> KnowledgeId(line),
   title |-> KnowledgeTitle(line),
   chapter |-> chapter,
   chapter_name |-> CHAPTER_NAMES(chapter),
   importance |-> FindImportance(line),
   exam_requirements |-> ExamRequirements(line),
   content |-> <<>>,
   start_line |-> idx,
   content_lines |-> <<>>]

\* AddContent that does not look for a star token in the content line.
AddContent_NoImportance(kp, line) ==
  [kp EXCEPT !.content = Append(@, Strip(line)),
             !.content_lines = Append(@, line)]

\* AddContent that stores the raw line instead of the trimmed one.
AddContent_NoStrip(kp, line) ==
  [kp EXCEPT !.content = Append(@, line),
             !.content_lines = Append(@, line),
             !.importance = IF @ = "None" THEN FindImportance(line) ELSE @]

\* AddContent that takes the star token of every content line that has one,
\* whether or not the importance is already set.
AddContent_Overwrite(kp, line) ==
  [kp EXCEPT !.content = Append(@, Strip(line)),
             !.content_lines = Append(@, line),
             !.importance = IF FindImportance(line) # "None"
                              THEN FindImportance(line) ELSE @]

\* The content-collecting branch for a line that is not a boundary.
AddContent(kp, line) ==
  [kp EXCEPT !.content = Append(@, Strip(line)),
             !.content_lines = Append(@, line),
             !.importance = IF @ = "None" THEN FindImportance(line) ELSE @]

\* ScanLine that appends the point at a chapter boundary but forgets
\* `current_knowledge = None`.
ScanLine_NoReset ==
  /\ pc = "extract"
  /\ i < Len(lines)
  /\ LET line == lines[i + 1]
         chapter == DetectChapter(line, current_chapter)
     IN /\ current_chapter' = chapter
        /\ IF IsKnowledgeLine(line)
             THEN /\ kps' = kps \o current_knowledge
                  /\ current_knowledge' = <<NewKnowledge(line, chapter, i)>>
           ELSE IF current_knowledge # <<>> /\ i > current_knowledge[1].start_line
             THEN IF (\E k \in 1..Len(line) : KnowledgeAt(line, k)) \/ IsChapterLine(line)
                    THEN /\ kps' = Append(kps, current_knowledge[1])
                         /\ current_knowledge' = current_knowledge
                  ELSE IF IsContentLine(line)
                    THEN /\ kps' = kps
                         /\ current_knowledge' = <<AddContent(current_knowledge[1], line)>>
                  ELSE UNCHANGED <<kps, current_knowledge>>
           ELSE UNCHANGED <<kps, current_knowledge>>
  /\ i' = i + 1
  /\ UNCHANGED <<first_run, file, content, lines, knowledge_points, stats, pc, result>>

\* One iteration of the loop over self.lines; i is the index of the line.
\* current_knowledge is <<>> for None and <<kp>> for a point in progress.
ScanLine ==
  /\ pc = "extract"
  /\ i < Len(lines)
  /\ LET line == lines[i + 1]
         chapter == DetectChapter(line, current_chapter)
     IN /\ current_chapter' = chapter
        /\ IF IsKnowledgeLine(line)
             THEN /\ kps' = kps \o current_knowledge
                  /\ current_knowledge' = <<NewKnowledge(line, chapter, i)>>
           ELSE IF current_knowledge # <<>> /\ i > current_knowledge[1].start_line
             THEN IF (\E k \in 1..Len(line) : KnowledgeAt(line, k)) \/ IsChapterLine(line)
                    THEN /\ kps' = Append(kps, current_knowledge[1])
                         /\ current_knowledge' = <<>>
                  ELSE IF IsContentLine(line)
                    THEN /\ kps' = kps
                         /\ current_knowledge' = <<AddContent(current_knowledge[1], line)>>
                  ELSE UNCHANGED <<kps, current_knowledge>>
           ELSE UNCHANGED <<kps, current_knowledge>>
  /\ i' = i + 1
  /\ UNCHANGED <<first_run, file, content, lines, knowledge_points, stats, pc, result>>

\* del kp["content_lines"]
DropContentLines(kp) == [f \in (DOMAIN kp) \ {"content_lines"} |-> kp[f]]

\* ExtractEnd without `if current_knowledge: knowledge_points.append(..)`.
ExtractEnd_DropLast ==
  /\ pc = "extract"
  /\ i = Len(lines)
  /\ knowledge_points' = [k \in 1..Len(kps) |-> DropContentLines(kps[k])]
  /\ pc' = "knowledge"
  /\ UNCHANGED <<first_run, file, content, lines, stats, result, i, current_chapter,
                 current_knowledge, kps>>

\* After the loop: the in-progress point is saved, the temporary field is
\* removed and the list is stored in self.knowledge_points.
ExtractEnd ==
  /\ pc = "extract"
  /\ i = Len(lines)
  /\ LET all == kps \o current_knowledge
     IN knowledge_points' = [k \in 1..Len(all) |-> DropContentLines(all[k])]
  /\ pc' = "knowledge"
  /\ UNCHANGED <<first_run, file, content, lines, stats, result, i, current_chapter,
                 current_knowledge, kps>>

----------------------------------------------------------------------------
(* analyze_knowledge_distribution                                          *)

\* kp["content"][:5]
FirstFive(c) == SubSeq(c, 1, IF Len(c) < 5 THEN Len(c) ELSE 5)

\* The first star token among the given content lines, "None" without one.
RECURSIVE FirstImportance(_)
FirstImportance(cs) ==
  IF cs = <<>> THEN "None"
  ELSE IF FindImportance(Head(cs)) # "None" THEN FindImportance(Head(cs))
  ELSE FirstImportance(Tail(cs))

\* The second scan: a point without importance takes the first star token
\* of its first five content lines.
PostPass(kp) ==
  IF kp.importance = "None"
    THEN [kp EXCEPT !.importance = FirstImportance(FirstFive(kp.content))]
    ELSE kp

\* counts[key] += 1
Inc(counts, key) == [counts EXCEPT ![key] = @ + 1]

\* The bucket of importance_counts a point increments.
ImportanceBucket(kp, counts) ==
  IF kp.importance \in DOMAIN counts THEN kp.importance ELSE "weibiaozhu"

\* CountChapters that files a point without chapter under the introduction.
RECURSIVE CountChapters_NullAsIntro(_, _)
CountChapters_NullAsIntro(ps, counts) ==
  IF ps = <<>> THEN counts
  ELSE CountChapters_NullAsIntro(Tail(ps),
         IF Head(ps).chapter \in DOMAIN counts
           THEN Inc(counts, Head(ps).chapter) ELSE Inc(counts, "Intro"))

\* The loop over the points that fills chapter_counts.
RECURSIVE CountChapters(_, _)
CountChapters(ps, counts) ==
  IF ps = <<>> THEN counts
  ELSE CountChapters(Tail(ps),
         IF Head(ps).chapter \in DOMAIN counts
           THEN Inc(counts, Head(ps).chapter) ELSE counts)

\* CountImportance without the else branch that counts unmarked points.
RECURSIVE CountImportance_NoUnmarked(_, _)
CountImportance_NoUnmarked(ps, counts) ==
  IF ps = <<>> THEN counts
  ELSE CountImportance_NoUnmarked(Tail(ps),
         IF Head(ps).importance \in DOMAIN counts
           THEN Inc(counts, Head(ps).importance) ELSE counts)

\* The loop over the points that fills importance_counts.
RECURSIVE CountImportance(_, _)
CountImportance(ps, counts) ==
  IF ps = <<>> THEN counts
  ELSE CountImportance(Tail(ps), Inc(counts, ImportanceBucket(Head(ps), counts)))

\* The inner loop `for req in reqs: if req in counts: counts[req] += 1`.
RECURSIVE CountReqs(_, _)
CountReqs(reqs, counts) ==
  IF reqs = <<>> THEN counts
  ELSE CountReqs(Tail(reqs),
         IF Head(reqs) \in DOMAIN counts THEN Inc(counts, Head(reqs)) ELSE counts)

\* ExamStep without the elif branch: a multi-tag point counts in each of its
\* tags' buckets.
ExamStep_NoCombined(reqs, counts) ==
  IF Len(reqs) = 0 THEN Inc(counts, "weibiaozhu")
  ELSE CountReqs(reqs, counts)

\* The if/elif/else on len(reqs) for one point of the global exam count.
ExamStep(reqs, counts) ==
  IF Len(reqs) = 0 THEN Inc(counts, "weibiaozhu")
  ELSE IF Len(reqs) > 1 THEN Inc(counts, "zonghe")
  ELSE CountReqs(reqs, counts)

\* The loop over the points that fills exam_counts.
RECURSIVE CountExam(_, _)
CountExam(ps, counts) ==
  IF ps = <<>> THEN counts
  ELSE CountExam(Tail(ps), ExamStep(Head(ps).exam_requirements, counts))

\* imp_dist of one chapter: only the three star keys, no unmarked bucket.
RECURSIVE CountChapterImportance(_, _)
CountChapterImportance(ps, counts) ==
  IF ps = <<>> THEN counts
  ELSE CountChapterImportance(Tail(ps),
         IF Head(ps).importance \in DOMAIN counts
           THEN Inc(counts, Head(ps).importance) ELSE counts)

\* CountChapterExam that counts a point only when it has exactly one tag,
\* as the global count does.
RECURSIVE CountChapterExam_SingleOnly(_, _)
CountChapterExam_SingleOnly(ps, counts) ==
  IF ps = <<>> THEN counts
  ELSE CountChapterExam_SingleOnly(Tail(ps),
         IF Len(Head(ps).exam_requirements) = 1
           THEN CountReqs(Head(ps).exam_requirements, counts) ELSE counts)

\* exam_dist of one chapter: every tag of every point is counted.
RECURSIVE CountChapterExam(_, _)
CountChapterExam(ps, counts) ==
  IF ps = <<>> THEN counts
  ELSE CountChapterExam(Tail(ps), CountReqs(Head(ps).exam_requirements, counts))

\* chapter_details[chapter]
ChapterDetail(ps, chapter) ==
  LET chapter_kps == SelectSeq(ps, LAMBDA kp : kp.chapter = chapter)
  IN [total |-> Len(chapter_kps),
      importance |->
        CountChapterImportance(chapter_kps, [k \in {"***", "**", "*"} |-> 0]),
      exam_requirements |->
        CountChapterExam(chapter_kps, [k \in {"danxuan", "jianda", "lunshu"} |-> 0])]

\* The dictionary analyze_knowledge_distribution returns for the points ps
\* (after the second scan).
knowledge_distribution(ps) ==
  [total |-> Len(ps),
   by_chapter |-> CountChapters(ps, [ch \in ChapterSet |-> 0]),
   by_importance |->
     CountImportance(ps, [k \in {"***", "**", "*", "weibiaozhu"} |-> 0]),
   by_exam |->
     CountExam(ps, [k \in {"danxuan", "jianda", "lunshu", "zonghe", "weibiaozhu"} |-> 0]),
   chapter_details |-> [ch \in ChapterSet |-> ChapterDetail(ps, ch)]]

AnalyzeKnowledgeDistribution ==
  /\ pc = "knowledge"
  /\ LET ps == [k \in 1..Len(knowledge_points) |-> PostPass(knowledge_points[k])]
     IN /\ knowledge_points' = ps
        /\ stats' = Put(stats, "knowledge", knowledge_distribution(ps))
  /\ pc' = "questions"
  /\ UNCHANGED <<first_run, file, content, lines, result, i, current_chapter,
                 current_knowledge, kps>>

----------------------------------------------------------------------------
(* analyze_questions and analyze_content_features                          *)

\* len(re.findall(pat, s)) for a pattern that cannot overlap itself.
Occurrences(s, pat) == Cardinality({k \in 1..Len(s) : ContainsAt(s, pat, k)})

\* len(re.findall(r'【真题·|【模拟·', line))
QuestionCount(line) ==
  Occurrences(line, <<"LB", "zhenti">>) + Occurrences(line, <<"LB", "moni">>)

\* CountQuestions that counts a line's questions before it looks for a
\* chapter marker on the line.
RECURSIVE CountQuestions_BeforeChapter(_, _, _)
CountQuestions_BeforeChapter(ls, cur, counts) ==
  IF ls = <<>> THEN counts
  ELSE CountQuestions_BeforeChapter(Tail(ls), DetectChapter(Head(ls), cur),
         IF cur # "None"
           THEN [counts EXCEPT ![cur] = @ + QuestionCount(Head(ls))]
           ELSE counts)

\* The loop over self.lines that fills chapter_questions; cur is the
\* current chapter before the first of the lines ls.
RECURSIVE CountQuestions(_, _, _)
CountQuestions(ls, cur, counts) ==
  IF ls = <<>> THEN counts
  ELSE LET chapter == DetectChapter(Head(ls), cur)
       IN CountQuestions(Tail(ls), chapter,
            IF chapter # "None"
              THEN [counts EXCEPT ![chapter] = @ + QuestionCount(Head(ls))]
              ELSE counts)

analyze_questions(c, ls) ==
  LET real == Occurrences(c, <<"LB", "zhenti">>)
      mock == Occurrences(c, <<"LB", "moni">>)
  IN [total |-> real + mock,
      real |-> real,
      mock |-> mock,
      answers |-> Occurrences(c, <<"LB", "daan", "RB">>),
      explanations |-> Occurrences(c, <<"LB", "jiexi", "RB">>),
      by_chapter |-> CountQuestions(ls, "None", [ch \in ChapterSet |-> 0])]

AnalyzeQuestions ==
  /\ pc = "questions"
  /\ stats' = Put(stats, "questions", analyze_questions(content, lines))
  /\ pc' = "content"
  /\ UNCHANGED <<first_run, file, content, lines, knowledge_points, result, i,
                 current_chapter, current_knowledge, kps>>

\* ' '.join(cs)
RECURSIVE JoinSpace(_)
JoinSpace(cs) ==
  IF Len(cs) = 0 THEN <<>>
  ELSE IF Len(cs) = 1 THEN cs[1]
  ELSE cs[1] \o <<"SP">> \o JoinSpace(Tail(cs))

ContainsAny(s, toks) == \E k \in 1..Len(s) : s[k] \in toks

\* ContentType that tests the event keywords before the other groups.
ContentType_EventFirst(c) ==
  IF ContainsAny(c, {"zhanzheng", "yundong", "geming", "qiyi", "shibian"})
    THEN "lishishijian"
  ELSE IF ContainsAny(c, {"yiyi", "yingxiang", "zuoyong"}) THEN "lishiyiyi"
  ELSE IF ContainsAny(c, {"zhengce", "fangzhen", "luxian"}) THEN "lilunzhengce"
  ELSE IF ContainsAny(c, {"Mao", "Sun", "Deng", "Jiang", "Hu", "Xi"}) THEN "renwusixiang"
  ELSE "qita"

\* The if/elif chain that classifies one point's joined content.
ContentType(c) ==
  IF ContainsAny(c, {"yiyi", "yingxiang", "zuoyong"}) THEN "lishiyiyi"
  ELSE IF ContainsAny(c, {"zhengce", "fangzhen", "luxian"}) THEN "lilunzhengce"
  ELSE IF ContainsAny(c, {"Mao", "Sun", "Deng", "Jiang", "Hu", "Xi"}) THEN "renwusixiang"
  ELSE IF ContainsAny(c, {"zhanzheng", "yundong", "geming", "qiyi", "shibian"})
    THEN "lishishijian"
  ELSE "qita"

RECURSIVE CountContentTypes(_, _)
CountContentTypes(ps, counts) ==
  IF ps = <<>> THEN counts
  ELSE CountContentTypes(Tail(ps), Inc(counts, ContentType(JoinSpace(Head(ps).content))))

RECURSIVE TotalLength(_)
TotalLength(ps) ==
  IF ps = <<>> THEN 0
  ELSE CharLen(JoinSpace(Head(ps).content)) + TotalLength(Tail(ps))

\* avg_length is the quotient num / den; 0 without points.
analyze_content_features(ps) ==
  LET core == SelectSeq(ps, LAMBDA kp : kp.importance = "***")
      shown == SubSeq(core, 1, IF Len(core) < 100 THEN Len(core) ELSE 100)
  IN [avg_length |-> IF Len(ps) > 0 THEN [num |-> TotalLength(ps), den |-> Len(ps)]
                     ELSE [num |-> 0, den |-> 1],
      content_types |->
        CountContentTypes(ps, [k \in {"lishishijian", "renwusixiang", "lilunzhengce",
                                      "lishiyiyi", "qita"} |-> 0]),
      core_knowledge_count |-> Len(core),
      core_knowledge_list |->
        [k \in 1..Len(shown) |-> <<shown[k].chapter, shown[k].title>>]]

\* The last step of run_analysis, which then returns True.
AnalyzeContentFeatures ==
  /\ pc = "content"
  /\ stats' = Put(stats, "content", analyze_content_features(knowledge_points))
  /\ pc' = "done"
  /\ result' = "True"
  /\ UNCHANGED <<first_run, file, content, lines, knowledge_points, i, current_chapter,
                 current_knowledge, kps>>

Next ==
  \/ LoadFile
  \/ AnalyzeBasicInfo
  \/ AnalyzeStructure
  \/ ExtractBegin
  \/ ScanLine
  \/ ExtractEnd
  \/ AnalyzeKnowledgeDistribution
  \/ AnalyzeQuestions
  \/ AnalyzeContentFeatures

Spec == Init /\ [][Next]_vars

----------------------------------------------------------------------------
(* Properties.  Line indices are 1-based here; start_line is 0-based.      *)

\* The scan of extract_knowledge_points has finished.
Extracted ==
  pc \notin {"start", "failed", "basic_info", "structure", "extract_begin", "extract"}

\* analyze_knowledge_distribution has stored its result for these points.
Aggregated == Extracted /\ pc # "knowledge"

\* Indices of the knowledge-point marker lines among the first n lines.
MarkerLines(ls, n) == {k \in 1..n : IsKnowledgeLine(ls[k])}

\* A line that ends the point in progress.
IsBoundary(line) == IsKnowledgeLine(line) \/ IsChapterLine(line)

\* Index of the first boundary after the marker line m, Len(ls) + 1 at
\* end-of-input.
FirstBoundary(ls, m) ==
  LET B == {k \in (m + 1)..Len(ls) : IsBoundary(ls[k])}
  IN IF B = {} THEN Len(ls) + 1 ELSE CHOOSE k \in B : \A j \in B : k <= j

\* The k-th smallest element of a set of numbers.
RECURSIVE Nth(_, _)
Nth(S, k) ==
  LET m == CHOOSE m \in S : \A n \in S : m <= n
  IN IF k = 1 THEN m ELSE Nth(S \ {m}, k - 1)

RECURSIVE SumOver(_, _)
SumOver(f, S) ==
  IF S = {} THEN 0
  ELSE LET k == CHOOSE k \in S : TRUE IN f[k] + SumOver(f, S \ {k})

\* The points that exist while the scan is at line i: closed, then in progress.
ScanPoints == kps \o current_knowledge

\* C1: the number of knowledge points returned equals the number of marker
\* lines: after i lines the closed points plus the one in progress are the
\* marker lines seen so far, one record each, and the stored result has one
\* record per marker line of the whole input, the last closed at end-of-input.
C1_OnePointPerMarker ==
  /\ pc = "extract" =>
       /\ Len(ScanPoints) = Cardinality(MarkerLines(lines, i))
       /\ \A k \in 1..Len(ScanPoints) :
            ScanPoints[k].start_line + 1 = Nth(MarkerLines(lines, i), k)
  /\ Extracted =>
       /\ Len(knowledge_points) = Cardinality(MarkerLines(lines, Len(lines)))
       /\ \A k \in 1..Len(knowledge_points) :
            knowledge_points[k].start_line + 1 = Nth(MarkerLines(lines, Len(lines)), k)

\* Two points were returned and the last of them was still open at
\* end-of-input (the last line is one of its content lines).
C1_Witness ==
  /\ pc = "knowledge"
  /\ Len(knowledge_points) = 2
  /\ ~IsBoundary(lines[Len(lines)])
  /\ knowledge_points[2].content # <<>>

\* The content a point opened at marker line m must have: the trimmed
\* non-blank lines strictly between m and the first boundary after m.
ExpectedContent(ls, m) ==
  LET between == SubSeq(ls, m + 1, FirstBoundary(ls, m) - 1)
      kept == SelectSeq(between, LAMBDA l : Strip(l) # <<>>)
  IN [k \in 1..Len(kept) |-> Strip(kept[k])]

\* C2: every returned point's content is exactly the trimmed non-blank lines
\* strictly between its marker line and the first following boundary.
C2_ContentBetweenBoundaries ==
  /\ pc = "extract" =>
       \A k \in 1..Len(kps) :
         kps[k].content = ExpectedContent(lines, kps[k].start_line + 1)
  /\ Extracted =>
       \A k \in 1..Len(knowledge_points) :
         knowledge_points[k].content
           = ExpectedContent(lines, knowledge_points[k].start_line + 1)

\* A point with trimmed content that was closed by a boundary, with a
\* non-blank line after that boundary that is not part of its content.
C2_Witness ==
  /\ pc = "knowledge"
  /\ \E k \in 1..Len(knowledge_points) :
       LET kp == knowledge_points[k]
           b == FirstBoundary(lines, kp.start_line + 1)
       IN /\ kp.content # <<>>
          /\ \E j \in (kp.start_line + 2)..(b - 1) :
               Strip(lines[j]) # <<>> /\ Strip(lines[j]) # lines[j]
          /\ b < Len(lines)
          /\ \E j \in (b + 1)..Len(lines) :
               Strip(lines[j]) # <<>> /\ ~IsBoundary(lines[j])

\* C3: a point is appended exactly once, at the first boundary after its
\* marker line or at end-of-input: during the scan the closed points are
\* those whose first boundary has been read, the point in progress (at most
\* one) has met no boundary yet, and the output is in document order.
C3_ClosedAtFirstBoundary ==
  /\ pc = "extract" =>
       /\ Len(current_knowledge) <= 1
       /\ \A k \in 1..Len(kps) : FirstBoundary(lines, kps[k].start_line + 1) <= i
       /\ \A k \in 1..Len(current_knowledge) :
            FirstBoundary(lines, current_knowledge[k].start_line + 1) > i
       /\ \A j, k \in 1..Len(ScanPoints) :
            j < k => ScanPoints[j].start_line < ScanPoints[k].start_line
       /\ \A m \in MarkerLines(lines, i) :
            Cardinality({k \in 1..Len(ScanPoints) : ScanPoints[k].start_line + 1 = m}) = 1
  /\ Extracted =>
       /\ \A j, k \in 1..Len(knowledge_points) :
            j < k => knowledge_points[j].start_line < knowledge_points[k].start_line
       /\ \A m \in MarkerLines(lines, Len(lines)) :
            Cardinality({k \in 1..Len(knowledge_points) :
                           knowledge_points[k].start_line + 1 = m}) = 1

\* Mid-scan: one point was closed by a chapter-marker line, no point is in
\* progress, and lines remain to be read.
C3_Witness ==
  /\ pc = "extract"
  /\ 0 < i /\ i < Len(lines)
  /\ Len(kps) = 1
  /\ current_knowledge = <<>>
  /\ IsChapterLine(lines[i]) /\ ~IsKnowledgeLine(lines[i])

\* The chapter in force at line m: the one named by the latest
\* chapter-marker line at or before m, "None" when there is none.
ExpectedChapter(ls, m) ==
  LET S == {k \in 1..m : IsChapterLine(ls[k])}
  IN IF S = {} THEN "None"
     ELSE LET last == CHOOSE k \in S : \A j \in S : j <= k
              named == {c \in 1..Len(CHAPTERS) : Contains(ls[last], <<CHAPTERS[c]>>)}
          IN CHAPTERS[CHOOSE c \in named : \A d \in named : c <= d]

\* The two lines of the scenario: 第一章 第1页 and
\* 知识点1 [识记] 历史背景★★★【单选】.
ScenarioChapterLine == <<"Ch1", "SP", "DI", "1", "YE">>

ScenarioMarkerLine ==
  <<"KP", "1", "SP", "[", "shiji", "]", "SP", "lsbj", "*", "*", "*",
    "LB", "danxuan", "RB">>

\* C4: a point's chapter is the chapter of the latest chapter-marker line at
\* or before its marker line (None without one), at every moment of its
\* life; the two scenario lines yield exactly one point with id 1, title
\* 历史背景, chapter 第一章, importance ★★★ and requirements {单选}.
C4_ChapterAtMarker ==
  /\ pc = "extract" =>
       \A k \in 1..Len(ScanPoints) :
         ScanPoints[k].chapter = ExpectedChapter(lines, ScanPoints[k].start_line + 1)
  /\ Extracted =>
       \A k \in 1..Len(knowledge_points) :
         knowledge_points[k].chapter
           = ExpectedChapter(lines, knowledge_points[k].start_line + 1)
  /\ (Extracted /\ lines = <<ScenarioChapterLine, ScenarioMarkerLine>>) =>
       /\ Len(knowledge_points) = 1
       /\ knowledge_points[1].id = <<"1">>
       /\ knowledge_points[1].title = <<"lsbj">>
       /\ knowledge_points[1].chapter = "Ch1"
       /\ knowledge_points[1].importance = "***"
       /\ knowledge_points[1].exam_requirements = <<"danxuan">>

\* Three points: one before any chapter marker (chapter None), one under
\* 第一章, and one whose own marker line is a chapter marker that names 第二章
\* and 导言, of which 导言 comes first in CHAPTERS.
C4_Witness ==
  /\ pc = "knowledge"
  /\ \E a, b, c \in 1..Len(knowledge_points) :
       /\ knowledge_points[a].chapter = "None"
       /\ knowledge_points[b].chapter = "Ch1"
       /\ knowledge_points[c].chapter = "Intro"
       /\ IsChapterLine(lines[knowledge_points[c].start_line + 1])

\* Indices of the stored points that satisfy a test.
PointsWhere(Test(_)) == {k \in 1..Len(knowledge_points) : Test(knowledge_points[k])}

\* C5: the by_chapter counts of the eleven chapters sum to the number of
\* points with a chapter; a point without chapter is in 'total' and in no
\* chapter's count, so the sum equals 'total' exactly when no point lacks a
\* chapter.
C5_ChapterSum ==
  Aggregated =>
    LET K == stats.knowledge
        sum == SumOver(K.by_chapter, ChapterSet)
        nulls == PointsWhere(LAMBDA kp : kp.chapter = "None")
    IN /\ DOMAIN K.by_chapter = ChapterSet
       /\ K.total = Len(knowledge_points)
       /\ \A ch \in ChapterSet :
            K.by_chapter[ch] = Cardinality(PointsWhere(LAMBDA kp : kp.chapter = ch))
       /\ sum = Len(knowledge_points) - Cardinality(nulls)
       /\ (sum = K.total) <=> (nulls = {})

\* Aggregated points of which one has no chapter and one has a chapter.
C5_Witness ==
  /\ Aggregated
  /\ PointsWhere(LAMBDA kp : kp.chapter = "None") # {}
  /\ PointsWhere(LAMBDA kp : kp.chapter # "None") # {}
  /\ SumOver(stats.knowledge.by_chapter, ChapterSet) < stats.knowledge.total

\* C6: the four global importance buckets sum to the total number of
\* points, and so do the five global exam-requirement buckets.
C6_GlobalBucketSums ==
  Aggregated =>
    LET K == stats.knowledge
    IN /\ SumOver(K.by_importance, {"***", "**", "*", "weibiaozhu"}) = K.total
       /\ SumOver(K.by_exam, {"danxuan", "jianda", "lunshu", "zonghe", "weibiaozhu"})
            = K.total
       /\ K.total = Len(knowledge_points)

\* Aggregated points with an unmarked importance, a marked one, a point with
\* two tags and a point with none.
C6_Witness ==
  /\ Aggregated
  /\ PointsWhere(LAMBDA kp : kp.importance = "None") # {}
  /\ PointsWhere(LAMBDA kp : kp.importance # "None") # {}
  /\ PointsWhere(LAMBDA kp : Len(kp.exam_requirements) = 2) # {}
  /\ PointsWhere(LAMBDA kp : Len(kp.exam_requirements) = 0) # {}

\* The set of a point's tags.
Tags(kp) == {kp.exam_requirements[k] : k \in 1..Len(kp.exam_requirements)}

\* The one global exam bucket a point belongs to.
ExpectedExamBucket(kp) ==
  IF Tags(kp) = {} THEN "weibiaozhu"
  ELSE IF Cardinality(Tags(kp)) = 1 THEN CHOOSE t \in Tags(kp) : TRUE
  ELSE "zonghe"

\* C7: in the global exam count every point increments exactly one bucket:
\* 未标注 with no tag, the tag's bucket with one tag, 综合 with two or more;
\* each bucket holds exactly the points that belong to it.
C7_OneExamBucketPerPoint ==
  Aggregated =>
    \A b \in {"danxuan", "jianda", "lunshu", "zonghe", "weibiaozhu"} :
      stats.knowledge.by_exam[b]
        = Cardinality(PointsWhere(LAMBDA kp : ExpectedExamBucket(kp) = b))

\* Aggregated points with no tag, with one tag and with two tags.
C7_Witness ==
  /\ Aggregated
  /\ Len(knowledge_points) = 3
  /\ \A n \in 0..2 : PointsWhere(LAMBDA kp : Cardinality(Tags(kp)) = n) # {}
  /\ stats.knowledge.by_exam["zonghe"] = 1

\* C8: per chapter c and tag t, exam_requirements[t] is the number of
\* points of c whose tags contain t (a point with k tags is in k of these
\* buckets), and the chapter's 'total' equals by_chapter[c].
C8_ChapterExamPerTag ==
  Aggregated =>
    \A ch \in ChapterSet :
      LET D == stats.knowledge.chapter_details[ch]
      IN /\ D.total = stats.knowledge.by_chapter[ch]
         /\ \A t \in {"danxuan", "jianda", "lunshu"} :
              D.exam_requirements[t]
                = Cardinality(PointsWhere(LAMBDA kp : kp.chapter = ch /\ t \in Tags(kp)))

\* A point of 第一章 with two tags: two per-chapter buckets and the single
\* global bucket 综合.
C8_Witness ==
  /\ Aggregated
  /\ PointsWhere(LAMBDA kp : kp.chapter = "Ch1" /\ Cardinality(Tags(kp)) = 2) # {}
  /\ stats.knowledge.chapter_details["Ch1"].exam_requirements["jianda"] >= 1
  /\ stats.knowledge.chapter_details["Ch1"].exam_requirements["lunshu"] >= 1
  /\ stats.knowledge.by_exam["zonghe"] >= 1

\* The importance a point opened at marker line m has once the lines up to
\* index n are read: the star token of the first line, among the marker
\* line and the lines after it up to n, that contains a star.
ExpectedImportance(ls, m, n) ==
  LET S == {k \in m..n : \E j \in 1..Len(ls[k]) : ls[k][j] = "*"}
  IN IF S = {} THEN "None"
     ELSE FindImportance(ls[CHOOSE k \in S : \A j \in S : k <= j])

HasStar(line) == \E j \in 1..Len(line) : line[j] = "*"

\* C9: a point's importance is that of the first line, title line then
\* content lines, that contains a star token, at every line of the scan (so
\* a later line never overwrites it) and in the returned point; a point
\* with no star in its title and ★★ first in its 3rd content line has ★★.
C9_FirstStarWins ==
  /\ pc = "extract" =>
       /\ \A k \in 1..Len(kps) :
            kps[k].importance
              = ExpectedImportance(lines, kps[k].start_line + 1,
                                   FirstBoundary(lines, kps[k].start_line + 1) - 1)
       /\ \A k \in 1..Len(current_knowledge) :
            current_knowledge[k].importance
              = ExpectedImportance(lines, current_knowledge[k].start_line + 1, i)
  /\ Extracted =>
       \A k \in 1..Len(knowledge_points) :
         LET kp == knowledge_points[k]
         IN /\ kp.importance
                 = ExpectedImportance(lines, kp.start_line + 1,
                                      FirstBoundary(lines, kp.start_line + 1) - 1)
            /\ ( /\ ~HasStar(lines[kp.start_line + 1])
                 /\ Len(kp.content) >= 3
                 /\ ~HasStar(kp.content[1]) /\ ~HasStar(kp.content[2])
                 /\ FindImportance(kp.content[3]) = "**" )
               => kp.importance = "**"

\* The scan has returned, and the second scan has not run yet: a point with
\* no star in its title line whose 3rd content line is the first with ★★
\* has importance ★★.
C9_Witness ==
  /\ pc = "knowledge"
  /\ \E k \in 1..Len(knowledge_points) :
       LET kp == knowledge_points[k]
       IN /\ ~HasStar(lines[kp.start_line + 1])
          /\ Len(kp.content) >= 3
          /\ ~HasStar(kp.content[1]) /\ ~HasStar(kp.content[2])
          /\ FindImportance(kp.content[3]) = "**"
          /\ kp.importance = "**"

\* The file cannot be loaded: missing, unreadable, undecodable or empty.
Unloadable(f) == f.kind \in {"missing", "unreadable", "undecodable"} \/ f.text = <<>>

\* C10: for a missing, unreadable, undecodable or empty source load_file
\* returns False, run_analysis returns False without running an analysis
\* step, and stats and knowledge_points stay empty.
C10_FailedLoadNoStatistics ==
  Unloadable(file) =>
    /\ ~load_file(file, content, lines).ok
    /\ pc \in {"start", "failed"}
    /\ pc = "failed" => result = "False"
    /\ DOMAIN stats = {}
    /\ knowledge_points = <<>>

\* run_analysis has returned False for an existing, readable, empty file.
C10_Witness ==
  /\ pc = "failed"
  /\ result = "False"
  /\ file.kind = "txt"
  /\ file.text = <<>>

----------------------------------------------------------------------------
(* main: print_report after a run_analysis that returned True              *)

\* The denominators of the percentages _print_knowledge_summary computes:
\* knowledge['total'], once for every bucket with a positive count.
KnowledgeSummaryDenominators(K) ==
  {K.total : b \in {b \in DOMAIN K.by_importance : K.by_importance[b] > 0}}
  \cup {K.total : b \in {b \in DOMAIN K.by_exam : K.by_exam[b] > 0}}

\* The denominators _print_question_summary divides by: questions['total'],
\* for the real and for the mock percentage, without a test.
QuestionSummaryDenominators(Q) == {Q.total}

\* The denominators _print_content_features divides by: the sum of the
\* content-type counts, once for every type with a positive count.
ContentFeaturesDenominators(C) ==
  {SumOver(C.content_types, DOMAIN C.content_types) :
     t \in {t \in DOMAIN C.content_types : C.content_types[t] > 0}}

\* print_report from the header to _print_knowledge_summary.
PrintKnowledgeSummary ==
  /\ pc = "done"
  /\ pc' = IF 0 \in KnowledgeSummaryDenominators(stats.knowledge)
             THEN "crashed" ELSE "print_questions"
  /\ UNCHANGED <<first_run, file, content, lines, knowledge_points, stats, result,
                 i, current_chapter, current_knowledge, kps>>

\* _print_chapter_details and _print_question_summary; a division by zero
\* raises ZeroDivisionError, which nothing catches.
PrintQuestionSummary ==
  /\ pc = "print_questions"
  /\ pc' = IF 0 \in QuestionSummaryDenominators(stats.questions)
             THEN "crashed" ELSE "print_content"
  /\ UNCHANGED <<first_run, file, content, lines, knowledge_points, stats, result,
                 i, current_chapter, current_knowledge, kps>>

\* _print_content_features and the rest of print_report.
PrintContentFeatures ==
  /\ pc = "print_content"
  /\ pc' = IF 0 \in ContentFeaturesDenominators(stats.content)
             THEN "crashed" ELSE "reported"
  /\ UNCHANGED <<first_run, file, content, lines, knowledge_points, stats, result,
                 i, current_chapter, current_knowledge, kps>>

\* Texts of up to n lines over the line set LS, and the empty text.
RECURSIVE LineSeqsOver(_, _)
LineSeqsOver(LS, n) ==
  IF n = 0 THEN {<<>>}
  ELSE LET shorter == LineSeqsOver(LS, n - 1)
       IN shorter \cup {Append(ls, l) : ls \in {t \in shorter : Len(t) = n - 1},
                                        l \in LS}

TextFilesOver(LS, n) ==
  {[kind |-> "txt", text |-> t] :
     t \in {<<>>} \cup {Join(ls) : ls \in LineSeqsOver(LS, n) \ {<<>>}}}

\* Longest text, in lines, of the runs that print the report.
MaxReportLines == 3

\* Lines with and without knowledge points and question markers.
ReportLineSet ==
  { <<"x">>,
    <<"KP", "1", "x", "*", "*", "*">>,
    <<"LB", "zhenti", "x">>,
    <<"LB", "moni", "x", "LB", "daan", "RB">> }

InitReport == file \in TextFilesOver(ReportLineSet, MaxReportLines) /\ Constructed

NextReport ==
  \/ Next
  \/ PrintKnowledgeSummary
  \/ PrintQuestionSummary
  \/ PrintContentFeatures

SpecReport == InitReport /\ [][NextReport]_vars

\* run_analysis has stored the content features of the current points.
Featured == pc \in {"done", "print_questions", "print_content", "reported", "crashed"}

\* C11: no division by zero occurs in run_analysis followed by
\* print_report, for any loaded text: avg_length is 0 without points and no
\* percentage of the report is computed with a zero denominator.
C11_NoDivisionByZero ==
  /\ pc # "crashed"
  /\ (Featured /\ knowledge_points = <<>>) => stats.content.avg_length.num = 0

----------------------------------------------------------------------------
(* Texts with sections, questions and chapter markers                      *)

\* Longest text, in lines, of the outline runs.
MaxOutlineLines == 3

\* 第一章 第1页;  第2页第一节第二章【真题· (the chapter label follows the
\* section);  导言第二章第3页第二节知识点1 (two chapter labels);
\* 【真题·x【模拟·;  第1页第三节 (a section on a line without chapter label).
OutlineLineSet ==
  { <<"Ch1", "SP", "DI", "1", "YE">>,
    <<"DI", "2", "YE", "Sec1", "Ch2", "LB", "zhenti">>,
    <<"Intro", "Ch2", "DI", "3", "YE", "Sec2", "KP", "1">>,
    <<"LB", "zhenti", "x", "LB", "moni">>,
    <<"DI", "1", "YE", "Sec3">> }

InitOutline == file \in TextFilesOver(OutlineLineSet, MaxOutlineLines) /\ Constructed

SpecOutline == InitOutline /\ [][Next]_vars

\* analyze_questions has stored its result for the current text.
Questioned == Aggregated /\ pc # "questions"

\* Number of 【真题· markers, and of 【模拟· markers, on a line.
RealOn(line) ==
  Cardinality({j \in 1..(Len(line) - 1) : line[j] = "LB" /\ line[j + 1] = "zhenti"})

MockOn(line) ==
  Cardinality({j \in 1..(Len(line) - 1) : line[j] = "LB" /\ line[j + 1] = "moni"})

\* Sum of f over the indices in S.
RECURSIVE SumIdx(_, _)
SumIdx(f, S) ==
  IF S = {} THEN 0
  ELSE LET k == CHOOSE k \in S : TRUE IN f[k] + SumIdx(f, S \ {k})

\* Questions on the lines whose chapter in force (after a chapter marker on
\* the line itself) is ch; ch = "None" gives the lines before any marker.
QuestionsUnder(ls, ch) ==
  SumIdx([k \in 1..Len(ls) |-> RealOn(ls[k]) + MockOn(ls[k])],
         {k \in 1..Len(ls) : ExpectedChapter(ls, k) = ch})

\* C12: every line's real and mock markers are counted in the chapter in
\* force at that line, a chapter marker on the line itself included; markers
\* before the first chapter marker are counted globally and in no chapter;
\* real and mock are the global marker counts and total = real + mock.
C12_QuestionsBySequentialChapter ==
  Questioned =>
    LET Q == stats.questions
        all == 1..Len(lines)
    IN /\ Q.real = SumIdx([k \in all |-> RealOn(lines[k])], all)
       /\ Q.mock = SumIdx([k \in all |-> MockOn(lines[k])], all)
       /\ Q.total = Q.real + Q.mock
       /\ \A ch \in ChapterSet : Q.by_chapter[ch] = QuestionsUnder(lines, ch)
       /\ SumOver(Q.by_chapter, ChapterSet) = Q.total - QuestionsUnder(lines, "None")

\* A line with one real and one mock marker before the first chapter marker
\* and one after it, and a real marker on a chapter-marker line of 第二章.
C12_Witness ==
  /\ Questioned
  /\ lines = << <<"LB", "zhenti", "x", "LB", "moni">>,
                <<"DI", "2", "YE", "Sec1", "Ch2", "LB", "zhenti">>,
                <<"LB", "zhenti", "x", "LB", "moni">> >>
  /\ stats.questions.by_chapter["Ch2"] = 3
  /\ stats.questions.real = 3
  /\ stats.questions.mock = 2
  /\ stats.questions.total = 5

\* analyze_structure has stored its result for the current text.
Structured == pc \notin {"start", "failed", "basic_info", "structure"}

\* Offsets of the section matches of the text.
SectionOffsets == {p \in 1..Len(content) : SectionAt(content, p)}

\* Offsets before p of chapter labels on lines with a page marker or divider.
MarkersBefore(p) ==
  {q \in 1..(p - 1) : content[q] \in ChapterSet /\ HasPageMarker(LineAround(content, q))}

\* The chapter of the marker occurrence with the greatest offset below p.
PrecedingChapter(p) ==
  IF MarkersBefore(p) = {} THEN "None"
  ELSE content[CHOOSE q \in MarkersBefore(p) : \A o \in MarkersBefore(p) : o <= q]

\* C13: chapter_sections[ch] counts exactly the sections whose nearest
\* preceding chapter-marker occurrence (greatest offset strictly below the
\* section's) is of ch; a section without a preceding marker is counted in
\* no chapter, so the per-chapter counts sum to at most total_sections.
C13_SectionsByNearestPrecedingMarker ==
  Structured =>
    LET S == stats.structure
    IN /\ S.total_sections = Cardinality(SectionOffsets)
       /\ \A ch \in ChapterSet :
            S.chapter_sections[ch] =
              Cardinality({p \in SectionOffsets : PrecedingChapter(p) = ch})
       /\ SumOver(S.chapter_sections, ChapterSet) =
            S.total_sections
              - Cardinality({p \in SectionOffsets : MarkersBefore(p) = {}})
       /\ SumOver(S.chapter_sections, ChapterSet) <= S.total_sections

\* A section before any chapter marker, then a 第一章 marker line, then a
\* section followed on its line by the label of 第二章: the second section
\* goes to 第一章 and the first to no chapter.
C13_Witness ==
  /\ Structured
  /\ lines = << <<"DI", "1", "YE", "Sec3">>,
                <<"Ch1", "SP", "DI", "1", "YE">>,
                <<"DI", "2", "YE", "Sec1", "Ch2", "LB", "zhenti">> >>
  /\ stats.structure.total_sections = 2
  /\ stats.structure.chapter_sections["Ch1"] = 1
  /\ stats.structure.chapter_sections["Ch2"] = 0
  /\ SumOver(stats.structure.chapter_sections, ChapterSet) = 1

----------------------------------------------------------------------------
(* Texts with keyword content                                              *)

\* Longest text, in lines, of the keyword runs.
MaxKeywordLines == 3

\* 知识点1x;  意义政策;  毛泽东战争;  政策毛泽东;  战争.
KeywordLineSet ==
  { <<"KP", "1", "x">>,
    <<"yiyi", "zhengce">>,
    <<"Mao", "zhanzheng">>,
    <<"zhengce", "Mao">>,
    <<"zhanzheng">> }

InitKeyword == file \in TextFilesOver(KeywordLineSet, MaxKeywordLines) /\ Constructed

SpecKeyword == InitKeyword /\ [][Next]_vars

\* The keyword groups a point's content lines mention.
Mentions(kp, toks) ==
  \E k \in 1..Len(kp.content) : \E j \in 1..Len(kp.content[k]) : kp.content[k][j] \in toks

\* The highest-priority keyword group among those a point mentions.
PriorityType(kp) ==
  LET sig == Mentions(kp, {"yiyi", "yingxiang", "zuoyong"})
      pol == Mentions(kp, {"zhengce", "fangzhen", "luxian"})
      fig == Mentions(kp, {"Mao", "Sun", "Deng", "Jiang", "Hu", "Xi"})
      evt == Mentions(kp, {"zhanzheng", "yundong", "geming", "qiyi", "shibian"})
  IN CHOOSE t \in {"lishiyiyi", "lilunzhengce", "renwusixiang", "lishishijian", "qita"} :
       /\ (t = "lishiyiyi") <=> sig
       /\ (t = "lilunzhengce") <=> (~sig /\ pol)
       /\ (t = "renwusixiang") <=> (~sig /\ ~pol /\ fig)
       /\ (t = "lishishijian") <=> (~sig /\ ~pol /\ ~fig /\ evt)
       /\ (t = "qita") <=> (~sig /\ ~pol /\ ~fig /\ ~evt)

\* C14: every knowledge point is counted in exactly one content type, the
\* highest-priority one (历史意义, 理论政策, 人物思想, 历史事件, 其他) among
\* the keyword groups it matches, so the five counts sum to the number of
\* knowledge points.
C14_OneContentTypeByPriority ==
  pc = "done" =>
    LET T == stats.content.content_types
    IN /\ DOMAIN T = {"lishiyiyi", "lilunzhengce", "renwusixiang", "lishishijian", "qita"}
       /\ \A t \in DOMAIN T :
            T[t] = Cardinality({k \in 1..Len(knowledge_points) :
                                  PriorityType(knowledge_points[k]) = t})
       /\ SumOver(T, DOMAIN T) = Len(knowledge_points)

\* One point whose content mentions a figure, an event, a significance and
\* a policy keyword is counted only under 历史意义.
C14_Witness ==
  /\ pc = "done"
  /\ lines = << <<"KP", "1", "x">>, <<"Mao", "zhanzheng">>, <<"yiyi", "zhengce">> >>
  /\ Len(knowledge_points) = 1
  /\ stats.content.content_types["lishiyiyi"] = 1
  /\ stats.content.content_types["lilunzhengce"] = 0
  /\ stats.content.content_types["renwusixiang"] = 0
  /\ stats.content.content_types["lishishijian"] = 0

----------------------------------------------------------------------------
(* run_analysis called a second time on the same input                     *)

\* Longest text, in lines, of the repeated runs.
MaxRerunLines == 3

\* 第一章 第1页;  知识点1x★★★【单选】;  x★★;  【真题·x.
RerunLineSet ==
  { <<"Ch1", "SP", "DI", "1", "YE">>,
    <<"KP", "1", "x", "*", "*", "*", "LB", "danxuan", "RB">>,
    <<"x", "*", "*">>,
    <<"LB", "zhenti", "x">> }

\* What a finished run leaves to its caller.
Outcome == [knowledge_points |-> knowledge_points, stats |-> stats, result |-> result]

\* After run_analysis has returned, it is called once more for the same
\* file, on a newly constructed analyzer or on the same object.
Rerun ==
  /\ pc \in {"done", "failed"}
  /\ first_run = <<>>
  /\ pc' = "start"
  /\ result' = "None"
  /\ \/ /\ first_run' = <<[mode |-> "fresh", outcome |-> Outcome]>>
        /\ content' = <<>>
        /\ lines' = <<>>
        /\ knowledge_points' = <<>>
        /\ stats' = <<>>
     \/ /\ first_run' = <<[mode |-> "same", outcome |-> Outcome]>>
        /\ UNCHANGED <<content, lines, knowledge_points, stats>>
  /\ UNCHANGED <<file, i, current_chapter, current_knowledge, kps>>

InitRerun == file \in TextFilesOver(RerunLineSet, MaxRerunLines) /\ Constructed

NextRerun == Next \/ Rerun

SpecRerun == InitRerun /\ [][NextRerun]_vars

\* C15: when the second run_analysis on the same input has returned, on a
\* fresh analyzer or on the same object, the knowledge-point sequence, the
\* aggregate statistics and the return value equal those of the first run.
C15_SecondRunSameOutcome ==
  (pc \in {"done", "failed"} /\ first_run # <<>>) => Outcome = first_run[1].outcome

\* A second run on the same analyzer object has finished for a text with a
\* chapter marker, a starred knowledge point and a question.
C15_Witness ==
  /\ pc = "done"
  /\ first_run # <<>>
  /\ first_run[1].mode = "same"
  /\ lines = << <<"Ch1", "SP", "DI", "1", "YE">>,
                <<"KP", "1", "x", "*", "*", "*", "LB", "danxuan", "RB">>,
                <<"LB", "zhenti", "x">> >>
  /\ Len(knowledge_points) = 1
  /\ stats.knowledge.by_chapter["Ch1"] = 1
  /\ stats.questions.total = 1

\* The chapter label ch occurs somewhere in the text.
Occurs(ch) == \E k \in 1..Len(content) : content[k] = ch

\* An all-zero entry of chapter_details.
EmptyDetail ==
  [total |-> 0,
   importance |-> [k \in {"***", "**", "*"} |-> 0],
   exam_requirements |-> [k \in {"danxuan", "jianda", "lunshu"} |-> 0]]

\* C16: each per-chapter map (structure chapter_sections, knowledge
\* by_chapter, chapter_details, questions by_chapter) has exactly the eleven
\* chapter keys, whatever the text, and the entry of a chapter whose label
\* never occurs in the text is zero.
C16_ElevenFixedChapterKeys ==
  /\ Cardinality(ChapterSet) = 11
  /\ Structured =>
       /\ DOMAIN stats.structure.chapter_sections = ChapterSet
       /\ \A ch \in ChapterSet : ~Occurs(ch) => stats.structure.chapter_sections[ch] = 0
  /\ Aggregated =>
       /\ DOMAIN stats.knowledge.by_chapter = ChapterSet
       /\ DOMAIN stats.knowledge.chapter_details = ChapterSet
       /\ \A ch \in ChapterSet :
            ~Occurs(ch) => /\ stats.knowledge.by_chapter[ch] = 0
                           /\ stats.knowledge.chapter_details[ch] = EmptyDetail
  /\ Questioned =>
       /\ DOMAIN stats.questions.by_chapter = ChapterSet
       /\ \A ch \in ChapterSet : ~Occurs(ch) => stats.questions.by_chapter[ch] = 0

\* All four maps have a non-zero entry (sections and a question under
\* 第二章, a knowledge point under 导言) and a zero entry for 第五章.
C16_Witness ==
  /\ pc = "done"
  /\ lines = << <<"Intro", "Ch2", "DI", "3", "YE", "Sec2", "KP", "1">>,
                <<"DI", "2", "YE", "Sec1", "Ch2", "LB", "zhenti">> >>
  /\ stats.structure.chapter_sections["Ch2"] = 2
  /\ stats.knowledge.by_chapter["Intro"] = 1
  /\ stats.knowledge.chapter_details["Intro"].total = 1
  /\ stats.questions.by_chapter["Ch2"] = 1
  /\ stats.structure.chapter_sections["Ch5"] = 0
  /\ stats.knowledge.by_chapter["Ch5"] = 0
  /\ stats.questions.by_chapter["Ch5"] = 0

\* Texts made of 第一章 第1页 lines only.
ChapterOneLines(ls) == \A k \in 1..Len(ls) : ls[k] = <<"Ch1", "SP", "DI", "1", "YE">>

\* C17: the chapter of a section (nearest preceding marker offset) and the
\* sequential chapter of a question or knowledge point on the same line can
\* differ.  When the last line is 第2页第一节第二章【真题· after 第一章 marker
\* lines only, its question is counted in 第二章 and its section is not;
\* when the last line is 导言第二章第3页第二节知识点1, its knowledge point is
\* in 导言 and its section in 第二章.
C17_SectionAndSequentialChapterDisagree ==
  (pc = "done" /\ lines # <<>> /\ ChapterOneLines(SubSeq(lines, 1, Len(lines) - 1))) =>
    LET last == lines[Len(lines)]
        S == stats.structure
        Q == stats.questions
        K == stats.knowledge
    IN /\ last = <<"DI", "2", "YE", "Sec1", "Ch2", "LB", "zhenti">> =>
            /\ S.total_sections = 1
            /\ Q.total = 1
            /\ Q.by_chapter["Ch2"] = 1
            /\ S.chapter_sections["Ch2"] = 0
            /\ S.chapter_sections["Ch1"] = (IF Len(lines) > 1 THEN 1 ELSE 0)
       /\ last = <<"Intro", "Ch2", "DI", "3", "YE", "Sec2", "KP", "1">> =>
            /\ S.total_sections = 1
            /\ K.total = 1
            /\ knowledge_points[1].chapter = "Intro"
            /\ K.by_chapter["Intro"] = 1
            /\ S.chapter_sections["Intro"] = 0
            /\ S.chapter_sections["Ch2"] = 1

\* The section of the second line is counted in 第一章 and the question on
\* the same line in 第二章.
C17_Witness ==
  /\ pc = "done"
  /\ lines = << <<"Ch1", "SP", "DI", "1", "YE">>,
                <<"DI", "2", "YE", "Sec1", "Ch2", "LB", "zhenti">> >>
  /\ stats.structure.chapter_sections["Ch1"] = 1
  /\ stats.structure.chapter_sections["Ch2"] = 0
  /\ stats.questions.by_chapter["Ch1"] = 0
  /\ stats.questions.by_chapter["Ch2"] = 1

----------------------------------------------------------------------------
(* One knowledge point with many content lines                             *)

\* Most content lines after the knowledge-point line.
MaxLongLines == 6

\* x;  x★★.
LongLineSet == { <<"x">>, <<"x", "*", "*">> }

\* 知识点1x followed by content lines.
LongTextFiles ==
  {[kind |-> "txt", text |-> Join(<<<<"KP", "1", "x">>>> \o body)] :
     body \in LineSeqsOver(LongLineSet, MaxLongLines)}

InitLong == file \in LongTextFiles /\ Constructed

SpecLong == InitLong /\ [][Next]_vars

\* Some content line of the point carries a star.
StarInContent(kp) ==
  \E k \in 1..Len(kp.content) : \E j \in 1..Len(kp.content[k]) : kp.content[k][j] = "*"

\* C18: a knowledge point that leaves extract_knowledge_points without
\* importance has no star in any content line, and the second scan at the
\* head of analyze_knowledge_distribution leaves every knowledge point as
\* it was, also when the first star is beyond the fifth content line.
C18_PostPassChangesNothing ==
  /\ [](Extracted =>
          \A k \in 1..Len(knowledge_points) :
            knowledge_points[k].importance = "None" => ~StarInContent(knowledge_points[k]))
  /\ [][pc = "knowledge" => knowledge_points' = knowledge_points]_vars

\* The second scan has run over a point whose first star is in its sixth
\* content line; the point has the importance of that line.
C18_Witness ==
  /\ pc = "questions"
  /\ Len(knowledge_points) = 1
  /\ knowledge_points[1].content =
       << <<"x">>, <<"x">>, <<"x">>, <<"x">>, <<"x">>, <<"x", "*", "*">> >>
  /\ knowledge_points[1].importance = "**"
  /\ stats.knowledge.by_importance["**"] = 1

====
